---- MODULE Spec2Model ----
(***************************************************************************)
(* Model of the in-conversation find widget hook, useFindWidget, of the    *)
(* chat GUI: the debounced search term, the history search (refreshSearch),*)
(* the current-match navigation, the run-search effect and the visible     *)
(* highlight refresh.                                                      *)
(*                                                                         *)
(* Strings are sequences of one-character strings; an offset into a string *)
(* is 0-based as in the source.  A React commit is one step: an event      *)
(* handler or an effect body runs to completion and its batched state      *)
(* updates become visible together.  The effects of a commit run before    *)
(* the next event is dispatched, so an event is taken when no effect is    *)
(* pending or when the pending run would change no value.                  *)
(***************************************************************************)
EXTENDS Integers, Sequences, FiniteSets, TLC

VARIABLES
    currentValue,       \* useState: the raw input value
    searchTerm,         \* useDebounceValue(currentValue, 300): the debounced term
    debounceTimers,     \* pending debounce timeouts, each holding the value it will emit
    open,               \* useState: widget open
    disabled,           \* prop: externally disabled
    caseSensitive,      \* useState
    history,            \* prop: the chat history
    matches,            \* useState: SearchMatch[]
    currentMatch,       \* useState: SearchMatch | undefined
    visibleHighlights,  \* useState: SearchMatch[] with overlay rectangles
    prevSearchTerm,     \* useRef: the term of the last non-empty re-index
    searchEffectPending,\* the run-search effect's dependencies changed since it last ran
    highlightTimer,     \* a setTimeout(updateHighlights, 0) is pending
    lastScroll,         \* index of the last scrollToIndex request, -1 when none was issued
    virtuosoMounted,    \* virtuosoRef.current is set
    containerMounted,   \* searchRef.current is set
    observe,            \* which history variables this behaviour records
    lastReindex,        \* history variable: what the last refreshSearch run started from
    nav,                \* history variable: the navigation sequence under way
    burst,              \* history variable: raw updates of the current burst, and emissions since its last one
    searchRuns,         \* history variable: refreshSearch runs since the last emission
    scanIn,             \* input of the stand-alone history scan
    scanOut             \* its result

inputVars == <<currentValue, debounceTimers>>
gateVars == <<open, disabled>>
resultVars == <<matches, currentMatch, prevSearchTerm, lastScroll>>
highlightVars == <<visibleHighlights, highlightTimer>>
refVars == <<virtuosoMounted, containerMounted, observe>>
ghostVars == <<lastReindex, nav, burst, searchRuns>>
scanVars == <<scanIn, scanOut>>
vars == <<inputVars, searchTerm, gateVars, caseSensitive, history, resultVars,
          searchEffectPending, highlightVars, refVars, ghostVars, scanVars>>

----------------------------------------------------------------------------
(* Bounds *)

MaxHist == 2
MaxTextLen == 3
MaxQueryLen == 2
CountCap == 2

----------------------------------------------------------------------------
(* Strings *)

Chars == {"a", "A"}

ToLowerChar(c) == IF c = "A" THEN "a" ELSE c

ToLowerCase(s) == [i \in 1..Len(s) |-> ToLowerChar(s[i])]

StringsUpTo(n) == UNION {[1..k -> Chars] : k \in 0..n}

Min(S) == CHOOSE x \in S : \A y \in S : x <= y

\* text.indexOf(q, start): the least offset >= start at which q occurs, -1 if none.
IndexOf(text, q, start) ==
    LET hits == {i \in start..(Len(text) - Len(q)) :
                    SubSeq(text, i + 1, i + Len(q)) = q}
    IN  IF hits = {} THEN -1 ELSE Min(hits)

----------------------------------------------------------------------------
(* Messages *)

StringContent(t) == [kind |-> "string", text |-> t, parts |-> <<>>]
PartsContent(ps) == [kind |-> "parts", text |-> <<>>, parts |-> ps]
OtherContent == [kind |-> "other", text |-> <<>>, parts |-> <<>>]

TextPart(t) == [type |-> "text", text |-> t]
ImagePart == [type |-> "imageUrl", text |-> <<>>]

RECURSIVE JoinParts(_)
JoinParts(ps) ==
    IF ps = <<>> THEN <<>>
    ELSE (IF Head(ps).type = "text" THEN Head(ps).text ELSE <<>>) \o JoinParts(Tail(ps))

\* The flattened text of a message content.
TextContent(content) ==
    IF content.kind = "string" THEN content.text
    ELSE IF content.kind = "parts" THEN JoinParts(content.parts)
    ELSE <<>>

NoId == ""
NoMatch == [index |-> -1, messageIndex |-> -1, messageId |-> NoId]

\* A match whose ordinal counts from one.
SearchMatchFromOne(i, mi, id) == [index |-> i + 1, messageIndex |-> mi, messageId |-> id]

SearchMatch(i, mi, id) == [index |-> i, messageIndex |-> mi, messageId |-> id]

----------------------------------------------------------------------------
(* The history search of refreshSearch *)

\* const query = caseSensitive ? searchTerm : searchTerm.toLowerCase()
Query(term, cs) == IF cs THEN term ELSE ToLowerCase(term)

\* A scan over the text as written, whatever the case flag.
TextAsWritten(content, cs) == TextContent(content)

\* const textToCheck = caseSensitive ? textContent : textContent.toLowerCase()
TextToCheck(content, cs) ==
    IF cs THEN TextContent(content) ELSE ToLowerCase(TextContent(content))

\* A scan that resumes one character after the start of the occurrence found.
AdvanceByOne(found, query) == found + 1

\* startIndex += query.length
Advance(found, query) == found + Len(query)

\* The while loop over one message: every occurrence found by indexOf from
\* startIndex on is pushed with index = results.length.
RECURSIVE ScanMessage(_, _, _, _, _, _)
ScanMessage(results, textToCheck, query, startIndex, historyIndex, id) ==
    LET found == IndexOf(textToCheck, query, startIndex)
    IN  IF found = -1 THEN results
        ELSE ScanMessage(Append(results, SearchMatch(Len(results), historyIndex, id)),
                         textToCheck, query, Advance(found, query), historyIndex, id)

\* A scan that skips no message.
SkipsNothing(item) == FALSE

\* if (item.message.role === "system") return;
Skipped(item) == item.role = "system"

\* history.forEach((item, historyIndex) => ...)
RECURSIVE ForEachMessage(_, _, _, _, _)
ForEachMessage(results, hist, historyIndex, query, cs) ==
    IF historyIndex >= Len(hist) THEN results
    ELSE LET item == hist[historyIndex + 1]
             after == IF Skipped(item) THEN results
                      ELSE ScanMessage(results, TextToCheck(item.content, cs), query,
                                       0, historyIndex, item.id)
         IN  ForEachMessage(after, hist, historyIndex + 1, query, cs)

\* An empty query that returns without clearing the list.
SearchHistoryKeepsList(hist, term, cs) ==
    IF Query(term, cs) = <<>> THEN matches
    ELSE ForEachMessage(<<>>, hist, 0, Query(term, cs), cs)

\* The match list refreshSearch passes to setMatches.
SearchHistory(hist, term, cs) ==
    IF Query(term, cs) = <<>> THEN <<>>
    ELSE ForEachMessage(<<>>, hist, 0, Query(term, cs), cs)

----------------------------------------------------------------------------
(* The re-selection of the current match in refreshSearch *)

RelocatesByIndex(r, cur) == r.messageIndex = cur.messageIndex

\* A find that falls back to the messageIndex whenever the id finds nothing.
RelocatesByEither(r, cur) ==
    \/ cur.messageId # NoId /\ r.messageId = cur.messageId
    \/ r.messageIndex = cur.messageIndex

\* results.find(r => (cur.messageId && r.messageId === cur.messageId) ||
\*                   (!cur.messageId && r.messageIndex === cur.messageIndex))
Relocates(r, cur) ==
    \/ cur.messageId # NoId /\ r.messageId = cur.messageId
    \/ cur.messageId = NoId /\ r.messageIndex = cur.messageIndex

\* The preserve-current branch, entered with a current match: the first result
\* that relocates it, else results[0] (undefined when results is empty).
PreserveCurrent(results, cur) ==
    LET found == {i \in 1..Len(results) : Relocates(results[i], cur)}
    IN  IF found # {} THEN results[Min(found)]
        ELSE IF results # <<>> THEN results[1]
        ELSE NoMatch

\* searchTerm !== prevSearchTerm.current
TermChanged(term, prevTerm) == term # prevTerm

\* The value of currentMatch after refreshSearch ran past the empty-query return.
SelectCurrent(results, cur, term, prevTerm) ==
    IF TermChanged(term, prevTerm)
    THEN IF results # <<>> THEN results[1] ELSE cur
    ELSE IF cur # NoMatch THEN PreserveCurrent(results, cur)
         ELSE IF results # <<>> THEN results[1] ELSE cur

\* Whether that run replaced the currentMatch reference: every object it sets is
\* freshly built, and undefined replaces a defined match.  It sets nothing only
\* when results is empty and (the term changed or no match was current).
CurrentReplaced(results, cur, term, prevTerm) ==
    ~(results = <<>> /\ (TermChanged(term, prevTerm) \/ cur = NoMatch))

----------------------------------------------------------------------------
(* Inputs *)

Terms == {<<>>, <<"a">>, <<"A">>}

\* The messages a history is built from: a message holding the term twice, one
\* made of typed parts, and one that carries no id.
PoolMessages ==
    { [id |-> "m1", role |-> "user", content |-> StringContent(<<"a", "a">>)],
      [id |-> "m2", role |-> "assistant",
       content |-> PartsContent(<<TextPart(<<"a">>), ImagePart, TextPart(<<"A">>)>>)],
      [id |-> NoId, role |-> "user", content |-> StringContent(<<"a">>)] }

Injective(f) == \A i, j \in DOMAIN f : i # j => f[i] # f[j]

Histories ==
    UNION {{h \in [1..k -> PoolMessages] : Injective(h)} : k \in 0..MaxHist}

Rect == "rect"

\* searchWithinContainer(searchRef, term, options).results: the occurrences in
\* the messages now mounted, a part of those of the history that scrolling
\* decides; none without a container or a term.
SearchWithinContainer(mounted, term, hist, cs) ==
    IF ~mounted \/ SearchHistory(hist, term, cs) = <<>>
    THEN {<<>>}
    ELSE {<<>>, <<Rect>>}

----------------------------------------------------------------------------
(* The run-search effect and refreshSearch, on the committed state *)

SuppressedWhenClosedOnly == ~open

\* if (disabled || !open)
Suppressed == disabled \/ ~open

EmptyQuery == Query(searchTerm, caseSensitive) = <<>>

Results == SearchHistory(history, searchTerm, caseSensitive)

\* An effect that keeps the list of a closed or disabled widget.
EffectMatchesKept == IF Suppressed THEN matches ELSE Results

\* What the effect body leaves in matches, currentMatch and prevSearchTerm.
EffectMatches == IF Suppressed THEN <<>> ELSE Results

EffectCurrent ==
    IF Suppressed \/ EmptyQuery THEN currentMatch
    ELSE SelectCurrent(Results, currentMatch, searchTerm, prevSearchTerm)

EffectPrevTerm ==
    IF Suppressed \/ EmptyQuery THEN prevSearchTerm ELSE searchTerm

\* scrollToMatch(results[0]) is called only on a changed term with a result.
EffectScrolls ==
    /\ ~Suppressed
    /\ ~EmptyQuery
    /\ TermChanged(searchTerm, prevSearchTerm)
    /\ Results # <<>>

\* A scrollToMatch that does not look at the list handle.
ScrollRequestUnguarded(match) == match.messageIndex

\* if (match.messageIndex !== undefined && virtuosoRef.current) scrollToIndex(...)
ScrollRequest(match) ==
    IF virtuosoMounted THEN match.messageIndex ELSE lastScroll

\* The effect runs again when refreshSearch is a new function, that is when
\* the run replaced currentMatch.
EffectReruns ==
    /\ ~Suppressed
    /\ ~EmptyQuery
    /\ CurrentReplaced(Results, currentMatch, searchTerm, prevSearchTerm)

\* No effect is pending, or the pending run would change no value.
Quiescent ==
    \/ ~searchEffectPending
    \/ /\ EffectMatches = matches
       /\ EffectCurrent = currentMatch
       /\ EffectPrevTerm = prevSearchTerm

----------------------------------------------------------------------------
(* useDebounceValue: a raw update clears the pending timeout and arms one for *)
(* the new value; the timeout sets the debounced value.                        *)

\* A debounce whose raw update arms a timeout without clearing the pending one.
DebounceNoCancel(timers, v) == Append(timers, v)

DebounceRestart(timers, v) == <<v>>

DebounceEmit(timers) == Head(timers)

----------------------------------------------------------------------------
(* History variables *)

NoBurst == [raw |-> 0, emits |-> 0]
NoNav == [origin |-> -1, nexts |-> 0, prev |-> FALSE]
NoReindex == [term |-> <<>>, prevCur |-> NoMatch]
NoScan == [history |-> <<>>, term |-> <<>>, caseSensitive |-> FALSE]
ScanIdle == [done |-> FALSE, results |-> <<>>]

Bump(n) == IF n < CountCap THEN n + 1 ELSE n

\* An event other than navigation ends the navigation sequence and the count
\* of runs that followed the last emission.
Interrupt == nav' = NoNav /\ searchRuns' = -1

\* lastReindex keeps the term of the last refreshSearch run and, until the next
\* event, the match that was current when a run with that same term began and
\* left the current match at another messageIndex.
Forget == lastReindex' = [lastReindex EXCEPT !.prevCur = NoMatch]

----------------------------------------------------------------------------
(* Initial state: the hook after its first render, its effects not yet run *)

InitHook(virtuoso, container, observed) ==
    /\ currentValue = <<>>
    /\ searchTerm = <<>>
    /\ debounceTimers = <<>>
    /\ open = FALSE
    /\ disabled \in BOOLEAN
    /\ caseSensitive = FALSE
    /\ history \in Histories
    /\ matches = <<>>
    /\ currentMatch = NoMatch
    /\ visibleHighlights = <<>>
    /\ prevSearchTerm = <<>>
    /\ searchEffectPending = TRUE
    /\ highlightTimer = FALSE
    /\ lastScroll = -1
    /\ virtuosoMounted = virtuoso
    /\ containerMounted = container
    /\ observe = observed
    /\ lastReindex = NoReindex
    /\ nav = NoNav
    /\ burst = NoBurst
    /\ searchRuns = -1
    /\ scanIn = NoScan
    /\ scanOut = ScanIdle

----------------------------------------------------------------------------
(* Events *)

\* onChange of the input: setCurrentValue(e.target.value)
OnChange(v) ==
    /\ Quiescent
    /\ ~disabled
    /\ v # currentValue
    /\ currentValue' = v
    /\ debounceTimers' = DebounceRestart(debounceTimers, v)
    /\ burst' = IF observe = "debounce"
                THEN [raw |-> IF burst.emits = 0 THEN Bump(burst.raw) ELSE 1,
                      emits |-> 0]
                ELSE burst
    /\ Interrupt
    /\ Forget
    /\ UNCHANGED <<searchTerm, gateVars, caseSensitive, history, resultVars,
                   searchEffectPending, highlightVars, refVars, scanVars>>

\* The debounce timeout fires: setDebouncedValue(value)
DebounceFire ==
    /\ Quiescent
    /\ debounceTimers # <<>>
    /\ searchTerm' = DebounceEmit(debounceTimers)
    /\ debounceTimers' = Tail(debounceTimers)
    /\ searchEffectPending' = (searchEffectPending \/ searchTerm' # searchTerm)
    /\ burst' = IF observe = "debounce"
                THEN [burst EXCEPT !.emits = Bump(@)]
                ELSE burst
    /\ nav' = NoNav
    /\ searchRuns' = IF /\ observe = "runs"
                        /\ open /\ ~disabled /\ ~searchEffectPending
                        /\ searchTerm' # searchTerm
                     THEN 0 ELSE -1
    /\ Forget
    /\ UNCHANGED <<currentValue, gateVars, caseSensitive, history, resultVars,
                   highlightVars, refVars, scanVars>>

\* openWidget, from the primary-modifier + f shortcut: setOpen(true)
OpenWidget ==
    /\ Quiescent
    /\ ~open
    /\ open' = TRUE
    /\ searchEffectPending' = TRUE
    /\ Interrupt
    /\ Forget
    /\ UNCHANGED <<inputVars, searchTerm, disabled, caseSensitive, history,
                   resultVars, highlightVars, refVars, burst, scanVars>>

\* setOpen(false), from Escape in the input or the close button.
CloseWidget ==
    /\ Quiescent
    /\ open
    /\ open' = FALSE
    /\ searchEffectPending' = TRUE
    /\ Interrupt
    /\ Forget
    /\ UNCHANGED <<inputVars, searchTerm, disabled, caseSensitive, history,
                   resultVars, highlightVars, refVars, burst, scanVars>>

\* The disabled prop changes.
SetDisabled ==
    /\ Quiescent
    /\ disabled' = ~disabled
    /\ searchEffectPending' = TRUE
    /\ Interrupt
    /\ Forget
    /\ UNCHANGED <<inputVars, searchTerm, open, caseSensitive, history,
                   resultVars, highlightVars, refVars, burst, scanVars>>

\* The case-sensitivity button: setCaseSensitive(curr => !curr)
ToggleCaseSensitive ==
    /\ Quiescent
    /\ ~disabled
    /\ caseSensitive' = ~caseSensitive
    /\ searchEffectPending' = TRUE
    /\ Interrupt
    /\ Forget
    /\ UNCHANGED <<inputVars, searchTerm, gateVars, history, resultVars,
                   highlightVars, refVars, burst,
                   scanVars>>

\* The history prop is replaced by a new array.
HistoryChange(h) ==
    /\ Quiescent
    /\ history' = h
    /\ searchEffectPending' = TRUE
    /\ Interrupt
    /\ Forget
    /\ UNCHANGED <<inputVars, searchTerm, gateVars, caseSensitive, resultVars,
                   highlightVars, refVars, burst,
                   scanVars>>

----------------------------------------------------------------------------
(* Navigation *)

\* scrollToMatch(match): setCurrentMatch(match) and one scrollToIndex request.
\* The effect is scheduled when match is not the object now current.
ScrollToMatch(match) ==
    /\ currentMatch' = match
    /\ lastScroll' = ScrollRequest(match)
    /\ searchEffectPending' = (searchEffectPending \/ match # currentMatch)

\* A next() that moves two ordinals on.
NextIndexSkipsOne(cur, n) == (cur.index + 2) % n

\* (currentMatch.index + 1) % matches.length
NextIndex(cur, n) == (cur.index + 1) % n

\* currentMatch.index === 0 ? matches.length - 1 : currentMatch.index - 1
PreviousIndex(cur, n) == IF cur.index = 0 THEN n - 1 ELSE cur.index - 1

\* A navigation sequence is followed from an open, enabled widget on:
\* its origin, the next() calls made, and whether previous() came after one.
NavAfterNext ==
    IF observe # "nav" \/ ~open \/ disabled THEN NoNav
    ELSE IF nav # NoNav /\ ~nav.prev /\ nav.nexts < Len(matches)
    THEN [nav EXCEPT !.nexts = @ + 1]
    ELSE [origin |-> currentMatch.index, nexts |-> 1, prev |-> FALSE]

NavAfterPrevious ==
    IF observe = "nav" /\ open /\ ~disabled
       /\ nav # NoNav /\ ~nav.prev /\ nav.nexts = 1
    THEN [nav EXCEPT !.prev = TRUE]
    ELSE NoNav

NextMatch ==
    /\ Quiescent
    /\ currentMatch # NoMatch
    /\ matches # <<>>
    /\ ScrollToMatch(matches[NextIndex(currentMatch, Len(matches)) + 1])
    /\ nav' = NavAfterNext
    /\ searchRuns' = -1
    /\ Forget
    /\ UNCHANGED <<inputVars, searchTerm, gateVars, caseSensitive, history,
                   matches, prevSearchTerm, highlightVars, refVars, burst, scanVars>>

PreviousMatch ==
    /\ Quiescent
    /\ currentMatch # NoMatch
    /\ matches # <<>>
    /\ ScrollToMatch(matches[PreviousIndex(currentMatch, Len(matches)) + 1])
    /\ nav' = NavAfterPrevious
    /\ searchRuns' = -1
    /\ Forget
    /\ UNCHANGED <<inputVars, searchTerm, gateVars, caseSensitive, history,
                   matches, prevSearchTerm, highlightVars, refVars, burst, scanVars>>

----------------------------------------------------------------------------
(* The keydown listener *)

Keys == {"f", "F", "Escape", "Enter", "x"}

\* event.key.toLowerCase()
ToLowerKey(key) == IF key = "F" THEN "f" ELSE key

\* A shortcut test that does not look at the Shift key.
IsOpenShortcutAnyShift(key, primary, shift) == primary /\ ToLowerKey(key) = "f"

\* (event.metaKey || event.ctrlKey) && event.key.toLowerCase() === "f" && !event.shiftKey
IsOpenShortcut(key, primary, shift) == primary /\ ToLowerKey(key) = "f" /\ ~shift

\* An early return that tests the current match alone.
ReturnsEarlyWithoutCurrent(cur, ms) == cur = NoMatch

\* if (!currentMatch || matches.length === 0) return;
ReturnsEarly(cur, ms) == cur = NoMatch \/ Len(ms) = 0

\* matches[newIndex]: undefined when newIndex is no index of matches.
ElementAt(ms, i) == IF i \in 0..(Len(ms) - 1) THEN ms[i + 1] ELSE NoMatch

\* newIndex of nextMatch and of previousMatch; the remainder by a length of 0
\* is NaN, no index of matches.
NewIndexNext(cur, ms) == IF Len(ms) = 0 THEN -1 ELSE NextIndex(cur, Len(ms))
NewIndexPrevious(cur, ms) == PreviousIndex(cur, Len(ms))

\* The call handleKeyDown(event) makes; focused is
\* document.activeElement === inputRef.current
KeyCall(key, primary, shift, focused) ==
    IF IsOpenShortcut(key, primary, shift) THEN "openWidget"
    ELSE IF focused /\ key = "Escape" THEN "close"
    ELSE IF focused /\ key = "Enter"
         THEN IF shift THEN "previousMatch" ELSE "nextMatch"
    ELSE "none"

\* nextMatch() or previousMatch() gets past its early return.
Navigates(call) ==
    call \in {"nextMatch", "previousMatch"} /\ ~ReturnsEarly(currentMatch, matches)

\* What the call leaves in open and in currentMatch, and the last scroll
\* request once it has returned.
OpenAfter(call) ==
    IF call = "openWidget" THEN TRUE
    ELSE IF call = "close" THEN FALSE
    ELSE open

CurrentAfter(call) ==
    IF ~Navigates(call) THEN currentMatch
    ELSE IF call = "nextMatch"
         THEN ElementAt(matches, NewIndexNext(currentMatch, matches))
         ELSE ElementAt(matches, NewIndexPrevious(currentMatch, matches))

ScrollAfter(call) ==
    IF Navigates(call) THEN ScrollRequest(CurrentAfter(call)) ELSE lastScroll

\* A keydown event reaches the listener, which makes its call.
KeyDown(key, primary, shift, focused) ==
    LET call == KeyCall(key, primary, shift, focused)
        acts == OpenAfter(call) # open \/ CurrentAfter(call) # currentMatch
    IN  /\ Quiescent
        /\ open' = OpenAfter(call)
        /\ currentMatch' = CurrentAfter(call)
        /\ lastScroll' = ScrollAfter(call)
        /\ searchEffectPending' = (searchEffectPending \/ acts)
        /\ nav' = IF call = "nextMatch" /\ Navigates(call) THEN NavAfterNext
                  ELSE IF call = "previousMatch" /\ Navigates(call) THEN NavAfterPrevious
                  ELSE IF acts THEN NoNav ELSE nav
        /\ searchRuns' = IF acts \/ Navigates(call) THEN -1 ELSE searchRuns
        /\ IF acts \/ Navigates(call) THEN Forget ELSE UNCHANGED lastReindex
        /\ UNCHANGED <<inputVars, searchTerm, disabled, caseSensitive, history,
                       matches, prevSearchTerm, highlightVars, refVars, burst, scanVars>>


(* The run-search effect *)

\* useEffect(() => { if (disabled || !open) setMatches([]); else refreshSearch(); },
\*           [refreshSearch, open, disabled])
RunSearchEffect ==
    /\ searchEffectPending
    /\ matches' = EffectMatches
    /\ currentMatch' = EffectCurrent
    /\ prevSearchTerm' = EffectPrevTerm
    /\ lastScroll' = IF EffectScrolls THEN ScrollRequest(Results[1]) ELSE lastScroll
    /\ searchEffectPending' = EffectReruns
    /\ highlightTimer' = (highlightTimer \/ (~Suppressed /\ ~EmptyQuery))
    /\ lastReindex' = IF observe = "reindex" /\ ~Suppressed
                      THEN [term |-> searchTerm,
                            prevCur |-> IF /\ searchTerm = lastReindex.term
                                           /\ currentMatch # NoMatch
                                           /\ EffectCurrent.messageIndex
                                                  # currentMatch.messageIndex
                                        THEN currentMatch ELSE NoMatch]
                      ELSE lastReindex
    /\ searchRuns' = IF ~Suppressed /\ searchRuns >= 0
                     THEN Bump(searchRuns) ELSE searchRuns
    /\ UNCHANGED <<inputVars, searchTerm, gateVars, caseSensitive, history,
                   visibleHighlights, refVars, nav, burst, scanVars>>

----------------------------------------------------------------------------
(* Visible highlights *)

\* updateHighlights: setVisibleHighlights(searchWithinContainer(...).results)
UpdateHighlights(term) ==
    \E r \in SearchWithinContainer(containerMounted, term, history, caseSensitive) :
        visibleHighlights' = r

\* A zero-delay timeout armed by refreshSearch fires; others may stay armed.
\* It was armed past the empty-query return, for a non-empty term.
DeferredHighlights ==
    /\ highlightTimer
    /\ \E t \in Terms \ {<<>>} : UpdateHighlights(t)
    /\ highlightTimer' \in BOOLEAN
    /\ UNCHANGED <<inputVars, searchTerm, gateVars, caseSensitive, history,
                   resultVars, searchEffectPending, refVars, ghostVars, scanVars>>

\* A click in the search container, whose listener is attached while open.
ContainerClick ==
    /\ open
    /\ containerMounted
    /\ UpdateHighlights(searchTerm)
    /\ UNCHANGED <<inputVars, searchTerm, gateVars, caseSensitive, history,
                   resultVars, searchEffectPending, highlightTimer, refVars,
                   ghostVars, scanVars>>

\* The counter label of the widget:
\* matches.length === 0 ? "No results" : `${(currentMatch?.index ?? 0) + 1} of ${matches.length}`
NoResults == <<"No results">>
CounterLabel ==
    IF Len(matches) = 0 THEN NoResults
    ELSE <<(IF currentMatch # NoMatch THEN currentMatch.index ELSE 0) + 1, "of", Len(matches)>>

\* The exported runHighlightUpdate, which the owner may call at any time.
RunHighlightUpdate ==
    /\ UpdateHighlights(searchTerm)
    /\ UNCHANGED <<inputVars, searchTerm, gateVars, caseSensitive, history,
                   resultVars, searchEffectPending, highlightTimer, refVars,
                   ghostVars, scanVars>>

\* useElementSize(headerRef) reports another clientHeight: updateHighlights
\* depends on headerHeight and refreshSearch on updateHighlights, so both are
\* new functions and the run-search effect is scheduled.  Nothing calls
\* updateHighlights here.
HeaderResize ==
    /\ Quiescent
    /\ searchEffectPending' = TRUE
    /\ Interrupt
    /\ Forget
    /\ UNCHANGED <<inputVars, searchTerm, gateVars, caseSensitive, history,
                   resultVars, highlightVars, refVars, burst, scanVars>>

----------------------------------------------------------------------------
(* Specifications of the hook *)

Next ==
    \/ \E v \in Terms : OnChange(v)
    \/ DebounceFire
    \/ OpenWidget
    \/ CloseWidget
    \/ SetDisabled
    \/ ToggleCaseSensitive
    \/ \E h \in Histories : HistoryChange(h)
    \/ NextMatch
    \/ PreviousMatch
    \/ RunSearchEffect
    \/ DeferredHighlights
    \/ RunHighlightUpdate

\* The search of the history, neither list handle nor container attached.
InitSearch == InitHook(FALSE, FALSE, "none")
SpecSearch == InitSearch /\ [][Next]_vars

\* The same, recording what each re-index started from.
InitReindex == InitHook(FALSE, FALSE, "reindex")
SpecReindex == InitReindex /\ [][Next]_vars

\* The same, recording navigation sequences.
InitNav == InitHook(FALSE, FALSE, "nav")
SpecNav == InitNav /\ [][Next]_vars

\* The same, recording the bursts of raw updates and their emissions.
InitDebounce == InitHook(FALSE, FALSE, "debounce")
SpecDebounce == InitDebounce /\ [][Next]_vars

\* The same, recording the refreshSearch runs that follow an emission.
InitRuns == InitHook(FALSE, FALSE, "runs")
SpecRuns == InitRuns /\ [][Next]_vars

\* The hook with the virtualized list attached, so that scroll requests are issued.
InitScroll == InitHook(TRUE, FALSE, "none")
SpecScroll == InitScroll /\ [][Next]_vars

\* The hook opened, closed and navigated from the keyboard alone, with the
\* virtualized list attached.  The highlight refresh, which reads and writes
\* visibleHighlights and its timer only, is left to SpecHighlights.
NextKeys ==
    \/ \E v \in Terms : OnChange(v)
    \/ DebounceFire
    \/ \E key \in Keys, primary, shift, focused \in BOOLEAN :
           KeyDown(key, primary, shift, focused)
    \/ SetDisabled
    \/ ToggleCaseSensitive
    \/ \E h \in Histories : HistoryChange(h)
    \/ RunSearchEffect

\* The hook with and without the list handle, navigation sequences followed.
InitScrollNav == \E virtuoso \in BOOLEAN : InitHook(virtuoso, FALSE, "nav")
SpecScrollNav == InitScrollNav /\ [][Next]_vars

InitKeys == InitHook(TRUE, FALSE, "none")
SpecKeys == InitKeys /\ [][NextKeys]_vars

\* The hook with the search container attached, so that highlights are found.
NextMounted == Next \/ ContainerClick
InitHighlights == InitHook(FALSE, TRUE, "none")
SpecHighlights == InitHighlights /\ [][NextMounted]_vars

\* The hook with the list handle and the search container attached, and a
\* header whose height changes.
NextResized == NextMounted \/ HeaderResize
InitResize == InitHook(TRUE, TRUE, "none")
SpecResize == InitResize /\ [][NextResized]_vars

\* What runs without any event: React runs a scheduled effect, and an armed
\* timeout fires.
Scheduling ==
    /\ WF_vars(RunSearchEffect)
    /\ WF_vars(DeferredHighlights)
    /\ WF_vars(DebounceFire)

\* The search of the history under that scheduling.
SpecSettle == InitSearch /\ [][Next]_vars /\ Scheduling

\* The hook with the search container attached, under that scheduling.
SpecPoll == InitHighlights /\ [][NextMounted]_vars /\ Scheduling

----------------------------------------------------------------------------
(* The history search on its own, over every small history and query *)

\* Flattened texts of at most MaxTextLen characters, as a string and as parts.
ScanParts ==
    { <<TextPart(<<"a">>), ImagePart, TextPart(<<"a">>)>>,
      <<TextPart(<<"A">>), TextPart(<<"a">>)>>,
      <<ImagePart>> }

ScanContents ==
    {StringContent(t) : t \in StringsUpTo(MaxTextLen)}
        \cup {PartsContent(ps) : ps \in ScanParts}
        \cup {OtherContent}

ScanRoles == {"user", "system"}

ScanIds == <<"m1", "m2">>

ScanMessagesAt(i) ==
    {[id |-> ScanIds[i], role |-> r, content |-> c] :
        r \in ScanRoles, c \in ScanContents}

\* Histories of one or two messages, each with the id of its position.
ScanHistories ==
    {<<m>> : m \in ScanMessagesAt(1)}
        \cup {<<m, n>> : m \in ScanMessagesAt(1), n \in ScanMessagesAt(2)}

ScanInputs ==
    [history : ScanHistories, term : StringsUpTo(MaxQueryLen), caseSensitive : BOOLEAN]

InitScan ==
    /\ currentValue = <<>>
    /\ searchTerm = <<>>
    /\ debounceTimers = <<>>
    /\ open = FALSE
    /\ disabled = FALSE
    /\ caseSensitive = FALSE
    /\ history = <<>>
    /\ matches = <<>>
    /\ currentMatch = NoMatch
    /\ visibleHighlights = <<>>
    /\ prevSearchTerm = <<>>
    /\ searchEffectPending = TRUE
    /\ highlightTimer = FALSE
    /\ lastScroll = -1
    /\ virtuosoMounted = FALSE
    /\ containerMounted = FALSE
    /\ observe = "none"
    /\ lastReindex = NoReindex
    /\ nav = NoNav
    /\ burst = NoBurst
    /\ searchRuns = -1
    /\ scanIn \in ScanInputs
    /\ scanOut = ScanIdle

\* refreshSearch's scan applied to the input: the list it passes to setMatches.
ScanStep ==
    /\ ~scanOut.done
    /\ scanOut' = [done |-> TRUE,
                   results |-> SearchHistory(scanIn.history, scanIn.term,
                                             scanIn.caseSensitive)]
    /\ UNCHANGED <<inputVars, searchTerm, gateVars, caseSensitive, history,
                   resultVars, searchEffectPending, highlightVars, refVars,
                   ghostVars, scanIn>>

SpecScan == InitScan /\ [][ScanStep]_vars

----------------------------------------------------------------------------
(* refreshSearch on its own, with the useRegex flag set and not set *)

\* A refreshSearch that searches whatever the case once useRegex is set.
RefreshSearchByPattern(hist, term, cs, regex, cur, prevTerm) ==
    [matches |-> SearchHistory(hist, term, cs /\ ~regex),
     currentMatch |-> IF Query(term, cs /\ ~regex) = <<>> THEN cur
                      ELSE SelectCurrent(SearchHistory(hist, term, cs /\ ~regex),
                                         cur, term, prevTerm)]

\* What one run of refreshSearch leaves in matches and currentMatch.  useRegex
\* is in its dependency list and is read nowhere in its body.
RefreshSearch(hist, term, cs, regex, cur, prevTerm) ==
    [matches |-> SearchHistory(hist, term, cs),
     currentMatch |-> IF Query(term, cs) = <<>> THEN cur
                      ELSE SelectCurrent(SearchHistory(hist, term, cs),
                                         cur, term, prevTerm)]

\* The matches that can be current when a run begins, or none.
RegexCurrents ==
    {NoMatch} \cup {SearchMatch(i, mi, id) :
                        i \in 0..MaxHist, mi \in 0..(MaxHist - 1), id \in {"m1", "m2", NoId}}

RegexInputs ==
    [history : Histories, term : Terms, caseSensitive : BOOLEAN,
     current : RegexCurrents, prevTerm : Terms]

RegexIdle == [done |-> FALSE, withRegex |-> <<>>, withoutRegex |-> <<>>]

InitRegex ==
    /\ currentValue = <<>>
    /\ searchTerm = <<>>
    /\ debounceTimers = <<>>
    /\ open = FALSE
    /\ disabled = FALSE
    /\ caseSensitive = FALSE
    /\ history = <<>>
    /\ matches = <<>>
    /\ currentMatch = NoMatch
    /\ visibleHighlights = <<>>
    /\ prevSearchTerm = <<>>
    /\ searchEffectPending = TRUE
    /\ highlightTimer = FALSE
    /\ lastScroll = -1
    /\ virtuosoMounted = FALSE
    /\ containerMounted = FALSE
    /\ observe = "none"
    /\ lastReindex = NoReindex
    /\ nav = NoNav
    /\ burst = NoBurst
    /\ searchRuns = -1
    /\ scanIn \in RegexInputs
    /\ scanOut = RegexIdle

\* The same run of refreshSearch made twice, useRegex set and not set.
RegexStep ==
    /\ ~scanOut.done
    /\ scanOut' = [done |-> TRUE,
                   withRegex |-> RefreshSearch(scanIn.history, scanIn.term,
                                               scanIn.caseSensitive, TRUE,
                                               scanIn.current, scanIn.prevTerm),
                   withoutRegex |-> RefreshSearch(scanIn.history, scanIn.term,
                                                  scanIn.caseSensitive, FALSE,
                                                  scanIn.current, scanIn.prevTerm)]
    /\ UNCHANGED <<inputVars, searchTerm, gateVars, caseSensitive, history,
                   resultVars, searchEffectPending, highlightVars, refVars,
                   ghostVars, scanIn>>

SpecRegex == InitRegex /\ [][RegexStep]_vars

----------------------------------------------------------------------------

(* C1 *)

\* C1: in every committed state, a present currentMatch is the element of a
\* non-empty matches at its own ordinal.
C1_CurrentMatchInMatches ==
    currentMatch # NoMatch =>
        /\ matches # <<>>
        /\ currentMatch.index < Len(matches)
        /\ matches[currentMatch.index + 1] = currentMatch

----------------------------------------------------------------------------
(* C2 *)

\* C2: from an open widget with a current match, n = Len(matches) calls of
\* next(), each left to settle, bring currentMatch back to the ordinal it
\* started from, and previous() right after next() does too.
C2_NavigationCycle ==
    (nav # NoNav /\ Quiescent /\ (nav.prev \/ nav.nexts = Len(matches)))
        => currentMatch.index = nav.origin

----------------------------------------------------------------------------
(* C3 *)

SelectedFirst(ms, cur) == cur = (IF ms = <<>> THEN NoMatch ELSE ms[1])

\* C3: a re-index whose term differs from the term of the previous re-index
\* leaves matches[0] current, or no match when the new list is empty.
C3_QueryChangeReset ==
    [][(RunSearchEffect /\ ~(disabled \/ ~open) /\ searchTerm # lastReindex.term)
          => SelectedFirst(matches', currentMatch')]_vars

----------------------------------------------------------------------------
(* C4 *)

\* The message at 0-based position k holds the query under the present flag.
HoldsQuery(k) ==
    /\ ~Skipped(history[k + 1])
    /\ IndexOf(TextToCheck(history[k + 1].content, caseSensitive),
               Query(searchTerm, caseSensitive), 0) # -1

\* The position the message of the current match has moved to, if it is still
\* in the history, holds the query and is no longer where the match says.
MovedTo(k) ==
    /\ k \in 0..(Len(history) - 1)
    /\ currentMatch # NoMatch
    /\ currentMatch.messageId # NoId
    /\ history[k + 1].id = currentMatch.messageId
    /\ k # currentMatch.messageIndex
    /\ HoldsQuery(k)

\* C4: a re-index with the term of the previous re-index, after the message
\* of the current match moved to position k, leaves current a match of the new
\* list with the same messageId and messageIndex k.
C4_IdentityPreservation ==
    [][\A k \in 0..MaxHist :
          (/\ RunSearchEffect
           /\ ~(disabled \/ ~open)
           /\ searchTerm # <<>>
           /\ searchTerm = lastReindex.term
           /\ MovedTo(k))
          => /\ currentMatch'.messageId = currentMatch.messageId
             /\ currentMatch'.messageIndex = k
             /\ currentMatch'.index < Len(matches')
             /\ matches'[currentMatch'.index + 1] = currentMatch']_vars

\* After a re-index with an unchanged term, the current match has the id of the
\* match that was current before it, another messageIndex, and is not matches[0].
C4_Witness ==
    /\ open /\ ~disabled
    /\ searchTerm # <<>>
    /\ lastReindex.term = searchTerm
    /\ lastReindex.prevCur # NoMatch
    /\ lastReindex.prevCur.messageId # NoId
    /\ currentMatch.messageId = lastReindex.prevCur.messageId
    /\ currentMatch.messageIndex # lastReindex.prevCur.messageIndex
    /\ matches # <<>>
    /\ currentMatch # matches[1]
    /\ matches[currentMatch.index + 1] = currentMatch

----------------------------------------------------------------------------
(* C5 *)

\* C5: once the effects of the last event have settled, a closed or disabled
\* widget has no matches.
C5_ClosedHasNoMatches ==
    ((disabled \/ ~open) /\ Quiescent) => matches = <<>>

\* A widget that was searching, now closed or disabled and settled, whose term
\* still occurs in the history.
C5_Witness ==
    /\ disabled \/ ~open
    /\ ~searchEffectPending
    /\ matches = <<>>
    /\ currentMatch # NoMatch
    /\ Results # <<>>

----------------------------------------------------------------------------
(* C6 *)

\* C6: a closed or disabled widget shows no highlight.
C6_ClosedHasNoHighlights ==
    (disabled \/ ~open) => visibleHighlights = <<>>

----------------------------------------------------------------------------
(* Debounce *)

\* What a burst of raw updates leaves behind: at most one emission, none while
\* its timeout is pending, and the last raw value once it has fired.
Coalesced ==
    /\ Len(debounceTimers) <= 1
    /\ burst.emits <= 1
    /\ debounceTimers # <<>> => (debounceTimers[1] = currentValue /\ burst.emits = 0)
    /\ (debounceTimers = <<>> /\ burst.raw > 0) =>
           (burst.emits = 1 /\ searchTerm = currentValue)

\* C7: a burst of raw updates is followed by one emission, after the last
\* update, of the last raw value; a raw update cancels the pending emission and
\* the debounced term never takes an intermediate value.
C7_DebounceCoalescing ==
    /\ []Coalesced
    /\ [][searchTerm' # searchTerm =>
              (searchTerm' = currentValue /\ debounceTimers' = <<>>)]_vars

\* A burst of two or more raw updates has been emitted: the term is its last
\* value.
C7_Witness ==
    /\ burst.raw >= 2
    /\ burst.emits = 1
    /\ debounceTimers = <<>>
    /\ searchTerm = currentValue
    /\ searchTerm # <<>>

\* C8: with the widget open and enabled and no other event, the emission of a
\* burst is followed by one run of refreshSearch, with the final raw value.
C8_OneSearchPerBurst ==
    searchRuns >= 0 => (searchRuns <= 1 /\ searchTerm = currentValue)


----------------------------------------------------------------------------
(* The scan against a reference *)

\* Two characters are the same, up to case when the search is not case
\* sensitive.
SameChar(c, d, cs) == IF cs THEN c = d ELSE ToLowerChar(c) = ToLowerChar(d)

\* q is written at offset i of text.
WrittenAt(text, q, i, cs) ==
    /\ i + Len(q) <= Len(text)
    /\ \A j \in 1..Len(q) : SameChar(text[i + j], q[j], cs)

\* The reference scan: left to right from offset i, an occurrence counts and
\* the scan resumes after its end.
RECURSIVE ReferenceCount(_, _, _, _)
ReferenceCount(text, q, i, cs) ==
    IF i + Len(q) > Len(text) THEN 0
    ELSE IF WrittenAt(text, q, i, cs)
         THEN 1 + ReferenceCount(text, q, i + Len(q), cs)
         ELSE ReferenceCount(text, q, i + 1, cs)

\* The texts of the first n parts written one after the other.
RECURSIVE ConcatTexts(_, _)
ConcatTexts(texts, n) ==
    IF n = 0 THEN <<>> ELSE ConcatTexts(texts, n - 1) \o texts[n].text

\* The flattened text: a string as it is, the texts of the text parts in order.
ReferenceText(content) ==
    IF content.kind = "string" THEN content.text
    ELSE IF content.kind = "parts"
         THEN LET IsText(p) == p.type = "text"
                  texts == SelectSeq(content.parts, IsText)
              IN  ConcatTexts(texts, Len(texts))
         ELSE <<>>

MatchesOf(results, k) == {i \in 1..Len(results) : results[i].messageIndex = k}

\* C9: for a non-empty query, the list holds for each message that is not a
\* system message as many matches as the reference scan of its flattened text
\* counts occurrences, overlapping ones counted once.
C9_LiteralMatchCompleteness ==
    (scanOut.done /\ scanIn.term # <<>>) =>
        \A k \in 0..(Len(scanIn.history) - 1) :
            scanIn.history[k + 1].role # "system" =>
                Cardinality(MatchesOf(scanOut.results, k))
                    = ReferenceCount(ReferenceText(scanIn.history[k + 1].content),
                                     scanIn.term, 0, scanIn.caseSensitive)


\* The query "aa" in a message whose text is "aaa": one match.
C9_Witness ==
    /\ scanOut.done
    /\ scanIn.term = <<"a", "a">>
    /\ scanIn.caseSensitive
    /\ Len(scanIn.history) = 1
    /\ scanIn.history[1].role = "user"
    /\ scanIn.history[1].content = StringContent(<<"a", "a", "a">>)
    /\ Len(scanOut.results) = 1

\* The history with every message text in lower case.
LowerContent(content) ==
    [content EXCEPT !.text = ToLowerCase(@),
                    !.parts = [i \in DOMAIN @ |-> [@[i] EXCEPT !.text = ToLowerCase(@)]]]

LowerHistory(hist) ==
    [i \in DOMAIN hist |-> [hist[i] EXCEPT !.content = LowerContent(@)]]

\* C10: a search that is not case sensitive gives the list that the case
\* sensitive search of the lower-cased query gives on the history with every
\* text lower-cased.
C10_CaseFoldEquivalence ==
    (scanOut.done /\ ~scanIn.caseSensitive) =>
        scanOut.results = SearchHistory(LowerHistory(scanIn.history),
                                        ToLowerCase(scanIn.term), TRUE)

\* A search that is not case sensitive found matches that the case sensitive
\* search of the same query does not find.
C10_Witness ==
    /\ scanOut.done
    /\ ~scanIn.caseSensitive
    /\ scanOut.results # <<>>
    /\ SearchHistory(scanIn.history, scanIn.term, TRUE) = <<>>


----------------------------------------------------------------------------
(* The order of matches *)

\* C11: matches is in ascending order of messageIndex and the match at
\* position i has ordinal i, so ordinals are unique and contiguous from 0.
C11_OrderedContiguousOrdinals ==
    /\ \A i \in 1..Len(matches) : matches[i].index = i - 1
    /\ \A i, j \in 1..Len(matches) :
           i < j => matches[i].messageIndex <= matches[j].messageIndex

\* A list of three matches or more, two of them in one message and one in a
\* later message.
C11_Witness ==
    /\ Len(matches) >= 3
    /\ matches[1].messageIndex = matches[2].messageIndex
    /\ matches[Len(matches)].messageIndex > matches[1].messageIndex
    /\ matches[Len(matches)].index = Len(matches) - 1

----------------------------------------------------------------------------
(* System messages *)

HoldsAt(item, term, cs) ==
    IndexOf(TextToCheck(item.content, cs), Query(term, cs), 0) # -1

\* C12: no match of the list refers to a history item of role "system", even
\* when the text of that item holds the query.
C12_NoSystemMatches ==
    scanOut.done =>
        \A i \in 1..Len(scanOut.results) :
            scanIn.history[scanOut.results[i].messageIndex + 1].role # "system"

\* A system message holding the query comes first and a user message holding it
\* second: the only matches are those of the second.
C12_Witness ==
    /\ scanOut.done
    /\ scanIn.term # <<>>
    /\ Len(scanIn.history) = 2
    /\ scanIn.history[1].role = "system"
    /\ HoldsAt(scanIn.history[1], scanIn.term, scanIn.caseSensitive)
    /\ scanIn.history[2].role = "user"
    /\ scanOut.results # <<>>
    /\ \A i \in 1..Len(scanOut.results) : scanOut.results[i].messageIndex = 1

----------------------------------------------------------------------------
(* A re-index without matches *)

\* C13: a run of refreshSearch that produces no match leaves no current match
\* and the counter label "No results".
C13_EmptyListClearsCurrent ==
    [][(RunSearchEffect /\ ~(disabled \/ ~open) /\ matches' = <<>>)
          => (currentMatch' = NoMatch /\ CounterLabel' = NoResults)]_vars

----------------------------------------------------------------------------
(* Re-index atomicity *)

InList(ms, m) == m.index < Len(ms) /\ ms[m.index + 1] = m

\* C14: the state a run of refreshSearch commits has its current match, when
\* there is one, in its match list, and the scroll request the run issued
\* targets the message of that current match.
C14_ReindexAtomicity ==
    [][(RunSearchEffect /\ ~(disabled \/ ~open))
          => /\ currentMatch' # NoMatch => InList(matches', currentMatch')
             /\ EffectScrolls => /\ currentMatch' = matches'[1]
                                 /\ lastScroll' = currentMatch'.messageIndex]_vars

----------------------------------------------------------------------------
(* next() and previous() *)

\* C15: with n matches and the current match of ordinal k, next() makes
\* matches[(k + 1) mod n] current and previous() makes matches[k - 1] current,
\* or matches[n - 1] when k = 0; the element selected is one of matches.
C15_NextPreviousSelect ==
    [][/\ NextMatch =>
            /\ currentMatch'.index = (IF currentMatch.index = Len(matches) - 1
                                      THEN 0 ELSE currentMatch.index + 1)
            /\ InList(matches, currentMatch')
       /\ PreviousMatch =>
            /\ currentMatch'.index = (IF currentMatch.index = 0
                                      THEN Len(matches) - 1 ELSE currentMatch.index - 1)
            /\ InList(matches, currentMatch')]_vars

\* next() was called on the last of two or more matches and the first one is
\* current.
C15_Witness ==
    /\ nav # NoNav
    /\ nav.nexts = 1
    /\ ~nav.prev
    /\ Len(matches) >= 2
    /\ nav.origin = Len(matches) - 1
    /\ currentMatch = matches[1]

----------------------------------------------------------------------------
(* Key events *)

Shortcut(key, primary, shift) == primary /\ key \in {"f", "F"} /\ ~shift

\* What a key event is to leave in open and in currentMatch.
KeyOutcome(key, primary, shift, focused) ==
    LET call == KeyCall(key, primary, shift, focused)
    IN  /\ Shortcut(key, primary, shift) => OpenAfter(call) = TRUE
        /\ (~Shortcut(key, primary, shift) /\ focused /\ key = "Escape")
               => OpenAfter(call) = FALSE
        /\ (~Shortcut(key, primary, shift) /\ ~(focused /\ key = "Escape"))
               => OpenAfter(call) = open
        /\ (~Shortcut(key, primary, shift) /\ ~focused)
               => /\ call = "none"
                  /\ CurrentAfter(call) = currentMatch
                  /\ ScrollAfter(call) = lastScroll
        /\ (focused /\ key = "Enter" /\ currentMatch # NoMatch /\ matches # <<>>)
               => CurrentAfter(call).index =
                      (IF shift
                       THEN (IF currentMatch.index = 0 THEN Len(matches) - 1
                             ELSE currentMatch.index - 1)
                       ELSE (currentMatch.index + 1) % Len(matches))
        /\ ~(focused /\ key = "Enter") => CurrentAfter(call) = currentMatch

\* C16: the primary modifier with f and without Shift opens the widget from
\* either state, whatever has the focus; Escape closes it and Enter and
\* Shift+Enter call next() and previous() only when the input has the focus; no
\* other key event changes open, and one that is not the shortcut, with the
\* input unfocused, makes no call and changes nothing.
C16_KeyTransitions ==
    \A key \in Keys, primary, shift, focused \in BOOLEAN :
        KeyOutcome(key, primary, shift, focused)

\* The widget was opened by the shortcut, searched, and was closed by Escape.
C16_Witness ==
    /\ ~open
    /\ ~searchEffectPending
    /\ prevSearchTerm # <<>>
    /\ currentMatch # NoMatch
    /\ matches = <<>>

\* C17: next() and previous() called with no match in the list or no current
\* match change neither currentMatch nor open and request no scroll; they
\* write nothing else.
C17_NavigationNoOp ==
    (currentMatch = NoMatch \/ matches = <<>>) =>
        \A call \in {"nextMatch", "previousMatch"} :
            /\ ~Navigates(call)
            /\ CurrentAfter(call) = currentMatch
            /\ ScrollAfter(call) = lastScroll
            /\ OpenAfter(call) = open

\* An open widget whose list is empty while a match of an earlier list is
\* still current, and a scroll was requested before: Enter is a call of next()
\* that returns at once.
C17_Witness ==
    /\ open /\ ~disabled
    /\ Quiescent
    /\ matches = <<>>
    /\ currentMatch # NoMatch
    /\ lastScroll # -1

----------------------------------------------------------------------------
(* scrollToMatch *)

\* A step in which scrollToMatch(m) is called: from next(), from previous(),
\* or from refreshSearch with the first result of a changed term.
CallsScrollToMatch ==
    \/ NextMatch
    \/ PreviousMatch
    \/ RunSearchEffect /\ EffectScrolls

\* C18: scrollToMatch(m) makes m the current match and, with the list handle
\* present, requests a scroll to m.messageIndex, so that the last target
\* requested is that of the match last passed to it; with the handle absent
\* the current match is set all the same and no scroll is ever requested.
C18_ScrollToMatch ==
    /\ [][(lastScroll' = IF virtuosoMounted THEN currentMatch'.messageIndex
                         ELSE lastScroll)
          \/ ~CallsScrollToMatch]_vars
    /\ [](~virtuosoMounted => lastScroll = -1)
    /\ [][NextMatch =>
             currentMatch' = matches[NextIndex(currentMatch, Len(matches)) + 1]]_vars
    /\ [][PreviousMatch =>
             currentMatch' = matches[PreviousIndex(currentMatch, Len(matches)) + 1]]_vars

\* With the handle present, two next() calls from the first match reached a
\* match of another message, and the last scroll requested is to that message.
C18_Witness ==
    /\ virtuosoMounted
    /\ nav # NoNav
    /\ nav.nexts = 2
    /\ nav.origin = 0
    /\ currentMatch # NoMatch
    /\ matches # <<>>
    /\ currentMatch.messageIndex # matches[1].messageIndex
    /\ lastScroll = currentMatch.messageIndex

----------------------------------------------------------------------------
(* The key that relocates the current match *)

\* The positions of the matches of ms that share the id, or the messageIndex,
\* of cur.
SharingId(ms, cur) == {i \in 1..Len(ms) : ms[i].messageId = cur.messageId}
SharingIndex(ms, cur) == {i \in 1..Len(ms) : ms[i].messageIndex = cur.messageIndex}

\* The current match chosen for the new list ms follows the key policy for
\* the match cur that was current before.
FollowsKeyPolicy(ms, cur, chosen) ==
    /\ InList(ms, chosen)
    /\ IF cur.messageId # NoId
       THEN IF SharingId(ms, cur) # {}
            THEN chosen.messageId = cur.messageId
            ELSE chosen = ms[1]
       ELSE IF SharingIndex(ms, cur) # {}
            THEN chosen.messageIndex = cur.messageIndex
            ELSE chosen = ms[1]

\* C19: on a re-index with the term of the previous re-index that finds
\* matches, a current match that carries a messageId is relocated by that id
\* alone, and is matches[0] when no new match has the id, whatever their
\* messageIndex; one without a messageId is relocated by messageIndex, and is
\* matches[0] when no new match has that messageIndex.
C19_RelocationKeyPolicy ==
    [][(/\ RunSearchEffect
        /\ ~(disabled \/ ~open)
        /\ searchTerm # <<>>
        /\ searchTerm = lastReindex.term
        /\ currentMatch # NoMatch
        /\ matches' # <<>>)
       => FollowsKeyPolicy(matches', currentMatch, currentMatch')]_vars

\* A re-index with an unchanged term found no match with the id of the match
\* that was current, found one at its messageIndex, and made matches[0], a
\* match of another message, the current one.
C19_Witness ==
    /\ open /\ ~disabled
    /\ searchTerm # <<>>
    /\ lastReindex.term = searchTerm
    /\ lastReindex.prevCur # NoMatch
    /\ lastReindex.prevCur.messageId # NoId
    /\ matches # <<>>
    /\ currentMatch = matches[1]
    /\ SharingId(matches, lastReindex.prevCur) = {}
    /\ SharingIndex(matches, lastReindex.prevCur) # {}

----------------------------------------------------------------------------
(* The empty term *)

\* C20: a re-index with an empty term leaves the match list empty, whatever
\* it held before, and requests no scroll.
C20_EmptyTermClears ==
    [][(RunSearchEffect /\ ~(disabled \/ ~open) /\ searchTerm = <<>>)
       => (matches' = <<>> /\ lastScroll' = lastScroll)]_vars

\* The term was emptied after a search whose first match was scrolled to, and
\* the re-index that followed has run.
C20_Witness ==
    /\ open /\ ~disabled
    /\ ~searchEffectPending
    /\ searchTerm = <<>>
    /\ prevSearchTerm # <<>>
    /\ matches = <<>>
    /\ lastScroll # -1

----------------------------------------------------------------------------
(* Timers of the highlight refresh *)

\* C21: once the widget is closed or disabled and the effects have run, no
\* highlight timer is armed. The hook arms no polling interval, so the
\* zero-delay refresh armed by refreshSearch is the only such timer.
C21_TimerTeardown ==
    ((~open \/ disabled) /\ ~searchEffectPending) => ~highlightTimer

----------------------------------------------------------------------------
(* The highlight refresh that no event triggers *)

\* C22: while the widget stays open and enabled, a refresh of the visible
\* highlights that needs no event is armed again and again, so that the
\* highlights are computed infinitely often.
C22_PollLiveness ==
    []<>(~open \/ disabled \/ highlightTimer)

----------------------------------------------------------------------------
(* The useRegex flag *)

----------------------------------------------------------------------------
(* The triggers of the highlight refresh *)

\* A step of a trigger of the highlight refresh alone: the deferred refresh
\* fires, a click in the container, a call of runHighlightUpdate, or a change
\* of the header height.
HighlightOnlyTrigger ==
    \/ DeferredHighlights
    \/ ContainerClick
    \/ RunHighlightUpdate
    \/ HeaderResize

\* C24: a trigger of the highlight refresh leaves matches and currentMatch as
\* they are, schedules no re-index and requests no scroll.
C24_HighlightTriggersFrame ==
    [][(/\ matches' = matches
        /\ currentMatch' = currentMatch
        /\ lastScroll' = lastScroll
        /\ searchEffectPending' = searchEffectPending)
       \/ ~HighlightOnlyTrigger]_vars

----------------------------------------------------------------------------
(* Quiescence *)

\* C25: a scheduled run of the run-search effect is followed, after finitely
\* many runs, by a state in which no run is scheduled: the currentMatch that a
\* re-index sets does not schedule the next one.
C25_Quiescence ==
    searchEffectPending ~> ~searchEffectPending

----------------------------------------------------------------------------
(* A re-index of unchanged inputs *)

\* The run-search effect is about to search, for the term of the last search,
\* a history in which the search finds the present list, a match of which is
\* current.
ReindexOfSameInputs ==
    /\ RunSearchEffect
    /\ ~(disabled \/ ~open)
    /\ searchTerm # <<>>
    /\ prevSearchTerm = searchTerm
    /\ matches = Results
    /\ currentMatch # NoMatch
    /\ InList(matches, currentMatch)

\* C26: a re-index with the term, case flag and history that gave the present
\* match list leaves the ordinal of currentMatch as it is.
C26_ReindexIdempotence ==
    [][(currentMatch'.index = currentMatch.index) \/ ~ReindexOfSameInputs]_vars

----------------------------------------------------------------------------
(* Scroll requests of a closed or disabled widget *)

\* C27: no step taken while the widget is closed or disabled changes the
\* scroll target: the run-search effect does not call scrollToMatch then, and
\* once it has run, Enter and Shift+Enter in the input call a next() and a
\* previous() that return before scrollToMatch.
C27_NoScrollWhileClosed ==
    /\ [][(disabled \/ ~open) => lastScroll' = lastScroll]_vars
    /\ []((disabled \/ ~open) => ~EffectScrolls)
    /\ []((Quiescent /\ (disabled \/ ~open))
             => \A shift \in BOOLEAN :
                    ~Navigates(KeyCall("Enter", FALSE, shift, TRUE)))

\* A closed widget, its effects run, that holds a term the history contains
\* and a match that was scrolled to while it was open.
C27_Witness ==
    /\ ~open
    /\ Quiescent
    /\ searchTerm # <<>>
    /\ Results # <<>>
    /\ currentMatch # NoMatch
    /\ lastScroll = currentMatch.messageIndex

====
